---- MODULE Spec2Model ----
(***************************************************************************)
(* The Identify service of js-libp2p (src/src/identify/index.ts): the      *)
(* identify initiator, the identify responder, the push initiator and the  *)
(* push responder, the start/stop lifecycle and the event listeners, over  *)
(* the peer store, the address manager and the registrar they write to.    *)
(*                                                                         *)
(* JavaScript runs the service on one thread: an async function runs       *)
(* without interruption from one await to the next.  One action of the     *)
(* model is one such run: the completion of the awaited call together with *)
(* the synchronous code that follows it, up to the next await that touches *)
(* shared state.  Awaits of pure computations (peerIdFromKeys,             *)
(* RecordEnvelope.openAndCertify) are folded into the run that precedes    *)
(* them: they read and write nothing shared.                               *)
(***************************************************************************)
EXTENDS Integers, Sequences, FiniteSets, TLC

VARIABLES
    started,        \* IdentifyService.started
    handlers,       \* registrar: the protocol strings that have a handler
    addressBook,    \* peerStore.addressBook: peer -> set of multiaddrs
    peerRecord,     \* peerStore: peer -> sequence number of the stored envelope (0: none)
    protoBook,      \* peerStore.protoBook: peer -> set of protocols
    metadataBook,   \* peerStore.metadataBook: peer -> key -> bytes
    observedAddrs,  \* addressManager: the observed addresses
    task,           \* the async calls in flight, one per slot
    budget          \* what the run may still do: the exchanges and the lifecycle calls
                    \* left to begin, and the messages the peers answer with

vars == <<started, handlers, addressBook, peerRecord, protoBook, metadataBook,
          observedAddrs, task, budget>>

store == <<addressBook, peerRecord, protoBook, metadataBook, observedAddrs>>

----------------------------------------------------------------------------
(* Bounds of the model *)

NumSlots == 2
MaxExchanges == 2
MaxSerialExchanges == 1
MaxLifecycle == 1
MaxSerialLifecycle == 2
MaxFairExchanges == 1
MaxFairLifecycle == 2
MaxPushExchanges == 1
MaxPushLifecycle == 2
MaxSeq == 2
MaxFaults == 1
\* init.maxObservedAddresses, as configured in the model
MaxObservedAddresses == 1

(* Program constants *)

MAX_IDENTIFY_MESSAGE_SIZE == 8192

----------------------------------------------------------------------------
(* Peers, keys, addresses *)

Slots == 1 .. NumSlots

LocalPeer == "L"
RemotePeers == {"A", "B"}
Peers == {LocalPeer} \cup RemotePeers

\* a connection is named by its remote peer; a node can also dial itself
Connections == Peers

Nil == "nil"

Keys == {"keyL", "keyA", "keyB"}

\* @libp2p/peer-id peerIdFromKeys: the peer id a public key derives
peerIdFromKeys(publicKey) ==
    CASE publicKey = "keyL" -> "L"
      [] publicKey = "keyA" -> "A"
      [] publicKey = "keyB" -> "B"

KeyOf(peer) == CHOOSE k \in Keys : peerIdFromKeys(k) = peer

\* binary multiaddrs as they come on the wire; "ff" is no multiaddr, "" is empty
ListenBytes == {"b1", "b2"}
ObservedBytes == {"bA", "bB"}
InvalidBytes == "ff"
EmptyBytes == ""

\* @multiformats/multiaddr multiaddr(): parses the bytes or throws
CanParse(bytes) == bytes \in ListenBytes \cup ObservedBytes

multiaddr(bytes) ==
    CASE bytes = "b1" -> "/ip4/10.0.0.1/tcp/4001"
      [] bytes = "b2" -> "/ip4/10.0.0.2/tcp/4001"
      [] bytes = "bA" -> "/ip4/1.1.1.1/tcp/1"
      [] bytes = "bB" -> "/ip4/2.2.2.2/tcp/2"

\* the addresses a peer certifies in its peer record number seq
RecordAddrs(seq) == {"/ip4/10.0.0.3/tcp/4001", "/ip4/10.0.1." \o ToString(seq) \o "/tcp/4001"}

\* uint8arrays fromString
uint8ArrayFromString(s) == <<"utf8", s>>

NoBytes == <<>>

\* the two protocol strings derived in the constructor
identifyProtocolStr == "/ipfs/id/1.0.0"
identifyPushProtocolStr == "/ipfs/id/push/1.0.0"

----------------------------------------------------------------------------
(* The Identify message (pb/message.proto): every field is optional *)

\* an envelope on the wire: the key that signed it (as the peer id it derives),
\* whether the signature verifies, and the peer record's sequence number
NoEnvelope == [present |-> FALSE, signer |-> Nil, sigOk |-> FALSE, seq |-> 0]

Envelope(signer, sigOk, seq) ==
    [present |-> TRUE, signer |-> signer, sigOk |-> sigOk, seq |-> seq]

\* what a remote peer can put in signed_peer_record: nothing, its own records,
\* a record with a broken signature, the genuine record of some other peer
Envelopes(remote) ==
    {NoEnvelope}
        \cup {Envelope(remote, TRUE, n) : n \in 1 .. MaxSeq}
        \cup {Envelope(remote, FALSE, 1)}
        \cup {Envelope(CHOOSE p \in RemotePeers : p # remote, TRUE, 1)}

ListenChoices == {<<"b1">>, <<"b2", InvalidBytes>>}
ProtocolChoices == {{"/chat/1"}, {"/chat/1", identifyPushProtocolStr}}
AgentChoices == {Nil, "go-libp2p/0.1"}
ProtocolVersionChoices == {Nil, "ipfs/0.1.0"}

\* how the remote peer of a connection sees this node
ObservedChoices(remote) ==
    {Nil, InvalidBytes, IF remote = "B" THEN "bB" ELSE "bA"}

Messages(remote) ==
    [publicKey : {Nil} \cup Keys,
     listenAddrs : ListenChoices,
     protocols : ProtocolChoices,
     observedAddr : ObservedChoices(remote),
     signedPeerRecord : Envelopes(remote),
     agentVersion : AgentChoices,
     protocolVersion : ProtocolVersionChoices]

\* the messages of a run that interleaves exchanges: one listen address list,
\* no protocol version, an own record or none
LightMessages(remote) ==
    {m \in Messages(remote) :
        /\ m.publicKey = KeyOf(remote)
        /\ m.listenAddrs = <<"b1">>
        /\ m.agentVersion # Nil
        /\ m.protocolVersion # Nil
        /\ m.protocols = {"/chat/1"}
        /\ m.observedAddr \in ObservedBytes
        /\ m.signedPeerRecord \in {NoEnvelope, Envelope(remote, TRUE, 1)}}

\* the messages the peer of a connection may answer with in this run
Answers(remote) ==
    IF budget.answers = "all" THEN Messages(remote) ELSE LightMessages(remote)

NoMessage ==
    [publicKey |-> Nil, listenAddrs |-> <<>>, protocols |-> {}, observedAddr |-> Nil,
     signedPeerRecord |-> NoEnvelope, agentVersion |-> Nil, protocolVersion |-> Nil]

\* frame lengths a peer can declare: the largest accepted, the smallest rejected
FrameLengths == {MAX_IDENTIFY_MESSAGE_SIZE, MAX_IDENTIFY_MESSAGE_SIZE + 1}

----------------------------------------------------------------------------
(* The collaborators: codec, envelope verifier, peer store, address manager *)

\* it-length-prefixed decode: a declared length above maxDataLength is an error
\* raised before the payload is read
LpDecodeAccepts(declared, maxDataLength) == declared <= maxDataLength

\* RecordEnvelope.openAndCertify: throws unless the signature verifies
openAndCertify(bytes) == bytes.sigOk

\* addressBook.consumePeerRecord: true iff the record is newer than the stored one
consumePeerRecord(envelope) == envelope.seq > peerRecord[envelope.signer]

\* addressManager.getObservedAddrs().length
ObservedCount == Cardinality(observedAddrs)

----------------------------------------------------------------------------
(* The async calls in flight *)

IdleTask ==
    [kind |-> "none", pc |-> "idle", conn |-> Nil,
     event |-> FALSE,    \* the call was made by the peer:connect listener
     timer |-> FALSE,    \* the call holds a timeout controller it has not cleared
     stream |-> FALSE,   \* the call holds a stream it has not closed
     input |-> Nil,      \* what the stream delivered: message, garbage, ended, abort
     frame |-> 0,        \* the length the frame declared
     buffered |-> FALSE, \* the payload of the frame was read
     msg |-> NoMessage, branch |-> Nil, consumed |-> Nil, faults |-> 0,
     log |-> {},         \* the writes the call has made
     logged |-> Nil,     \* the error the call caught and logged
     pushes |-> <<>>,    \* push(): the per-connection pushes
     change |-> Nil,     \* the peer id of the change event that made the call
     filtered |-> FALSE, \* push() was called by pushToPeerStore()
     conns |-> {},       \* pushToPeerStore(): what getConnections() returned
     seen |-> {},        \* pushToPeerStore(): the connections the loop has passed
     result |-> Nil]     \* "ok" when the promise resolved, else the error it rejected with

Idle(e) == task[e].pc = "idle"
Done(e) == task[e].pc = "done"
At(e, kind, pc) == task[e].kind = kind /\ task[e].pc = pc

\* a call is made: it takes the first free slot
BeginCall(e) == Idle(e) /\ \A f \in Slots : f < e => ~Idle(f)

\* an exchange of one of the four roles begins
BeginExchange(e) ==
    /\ BeginCall(e)
    /\ budget.exchanges > 0
    /\ budget' = [budget EXCEPT !.exchanges = @ - 1]

\* start() or stop() is called
BeginLifecycle(e) ==
    /\ BeginCall(e)
    /\ budget.lifecycle > 0
    /\ budget' = [budget EXCEPT !.lifecycle = @ - 1]

\* a peer-store call of task e may reject
MayFault(e) == task[e].faults < MaxFaults

Set(e, t) == task' = [task EXCEPT ![e] = t]

\* a slip: the finally block closes the stream and forgets the timeout controller
Released_KeepsTimer(t) == [t EXCEPT !.stream = FALSE]

\* the finally blocks: clear the timeout controller if one was created, close
\* the stream if one was obtained
Released(t) == [t EXCEPT !.timer = FALSE, !.stream = FALSE]

Finished(t, result) == [t EXCEPT !.pc = "done", !.result = result]

\* the responders and push() catch and log: the promise resolves
Caught(t, err) == [t EXCEPT !.pc = "done", !.result = "ok", !.logged = err]

\* the rejection of an I/O call that the signal aborted: the timeout of the
\* call's own controller, or the abort of the caller's signal
AbortError(t) == IF t.timer THEN "ERR_TIMEOUT" ELSE "ERR_ABORTED"

----------------------------------------------------------------------------
(* identify(connection, options): the initiator *)

\* a slip: the cap handed to lp.decode is one byte too generous
MaxDataLength_OffByOne == MAX_IDENTIFY_MESSAGE_SIZE + 1

\* maxDataLength handed to lp.decode
MaxDataLength == MAX_IDENTIFY_MESSAGE_SIZE

\* a slip: the comparison with connection.remotePeer is left out
CheckMessage_NoRemoteCheck(connection, message) ==
    IF message.publicKey = Nil THEN "ERR_MISSING_PUBLIC_KEY"
    ELSE IF LocalPeer = peerIdFromKeys(message.publicKey) THEN "ERR_INVALID_PEER"
    ELSE "ok"

\* a slip: the comparison with the local peer id is left out
CheckMessage_NoSelfCheck(connection, message) ==
    IF message.publicKey = Nil THEN "ERR_MISSING_PUBLIC_KEY"
    ELSE IF connection # peerIdFromKeys(message.publicKey) THEN "ERR_INVALID_PEER"
    ELSE "ok"

\* a slip: the peer id is compared before the public key is looked at
CheckMessage_CompareFirst(connection, message) ==
    IF message.publicKey = Nil \/ connection # peerIdFromKeys(message.publicKey)
    THEN "ERR_INVALID_PEER"
    ELSE IF LocalPeer = peerIdFromKeys(message.publicKey) THEN "ERR_INVALID_PEER"
    ELSE "ok"

\* the checks of identify() on the decoded message, in order
CheckMessage(connection, message) ==
    IF message.publicKey = Nil THEN "ERR_MISSING_PUBLIC_KEY"
    ELSE IF connection # peerIdFromKeys(message.publicKey) THEN "ERR_INVALID_PEER"
    ELSE IF LocalPeer = peerIdFromKeys(message.publicKey) THEN "ERR_INVALID_PEER"
    ELSE "ok"

\* const id = await peerIdFromKeys(publicKey): the peer the writes of identify() go to
Id(t) == peerIdFromKeys(t.msg.publicKey)

\* IdentifyService.getCleanMultiaddr
getCleanMultiaddr(addr) ==
    IF addr # Nil /\ addr # EmptyBytes
    THEN IF CanParse(addr) THEN multiaddr(addr) ELSE Nil
    ELSE Nil

\* the envelope is offered to the address book: it opens, and it is the peer's own
EnvelopeOffered(message, id) ==
    /\ message.signedPeerRecord.present
    /\ openAndCertify(message.signedPeerRecord)
    /\ message.signedPeerRecord.signer = id

\* listenAddrs.map((addr) => multiaddr(addr)) throws on the first bad entry
ListenAddrsParse(message) ==
    \A i \in 1 .. Len(message.listenAddrs) : CanParse(message.listenAddrs[i])

LegacyAddrs(message) ==
    {multiaddr(message.listenAddrs[i]) : i \in 1 .. Len(message.listenAddrs)}

\* the legacy path begins with addressBook.set, unless building its argument threw
LegacyEntry(message) ==
    IF ListenAddrsParse(message) THEN "addressBook.set" ELSE "protoBook.set"

AfterAgent(message) ==
    IF message.protocolVersion # Nil THEN "ProtocolVersion" ELSE "return"

\* a slip: the agent version is never stored
AfterProtocols_SkipAgent(message) == AfterAgent(message)

AfterProtocols(message) ==
    IF message.agentVersion # Nil THEN "AgentVersion" ELSE AfterAgent(message)

\* a slip: the cap is not looked at
StoresObserved_NoCap(cleanObservedAddr) == cleanObservedAddr # Nil

\* the observed address is stored while the address manager holds fewer than the cap
StoresObserved(cleanObservedAddr) ==
    cleanObservedAddr # Nil /\ ObservedCount < MaxObservedAddresses

\* identify() is entered: _identify creates the timeout controller unless the
\* caller passed a signal, and awaits connection.newStream
BeginIdentify(e, connection, signal) ==
    /\ BeginExchange(e)
    /\ Set(e, [IdleTask EXCEPT !.kind = "identify", !.pc = "newStream",
                               !.conn = connection, !.timer = ~signal,
                               !.event = ~signal])
    /\ UNCHANGED <<started, handlers, store>>

\* the peer:connect listener of the constructor: this.identify(connection);
\* the listener is added by the constructor and never removed
PeerConnect(e, connection) == BeginIdentify(e, connection, FALSE)

\* a caller of identify(connection, { signal })
IdentifyCall(e, connection) == BeginIdentify(e, connection, TRUE)

\* connection.newStream resolves or rejects
Identify_newStream(e) ==
    /\ At(e, "identify", "newStream")
    /\ LET t == task[e] IN
        \/ Set(e, [t EXCEPT !.pc = "read", !.stream = TRUE])
        \/ Set(e, Finished(Released(t), "ERR_STREAM"))
        \/ Set(e, Finished(Released(t), AbortError(t)))
    /\ UNCHANGED <<started, handlers, store, budget>>

\* what a call that threw on its checks has read of the message: the public key
Thrown(message) == [NoMessage EXCEPT !.publicKey = message.publicKey]

\* identify() after _identify returned message: the checks, the observed
\* address, the envelope, up to the first peer-store call
IdentifyResume(t, message) ==
    LET u == [t EXCEPT !.msg = message]
        err == CheckMessage(t.conn, message)
    IN  IF err # "ok" THEN Finished([t EXCEPT !.msg = Thrown(message)], err)
        ELSE IF EnvelopeOffered(message, peerIdFromKeys(message.publicKey))
        THEN [u EXCEPT !.pc = "consumePeerRecord", !.branch = "envelope"]
        ELSE [u EXCEPT !.pc = LegacyEntry(message), !.branch = "legacy"]

\* the first frame of the stream is read, or the read fails; the finally block
\* of _identify runs either way
Identify_read(e) ==
    /\ At(e, "identify", "read")
    /\ LET t == task[e] IN
        \/ \E n \in FrameLengths, m \in Answers(t.conn) :
              LET r == Released([t EXCEPT !.input = "message", !.frame = n]) IN
              IF LpDecodeAccepts(n, MaxDataLength)
              THEN Set(e, IdentifyResume([r EXCEPT !.buffered = TRUE], m))
              ELSE Set(e, Finished(r, "ERR_MESSAGE_TOO_LARGE"))
        \/ \E n \in FrameLengths :
              /\ LpDecodeAccepts(n, MaxDataLength)
              /\ Set(e, Finished(Released([t EXCEPT !.input = "garbage", !.frame = n,
                                                    !.buffered = TRUE]),
                                 "ERR_INVALID_MESSAGE"))
        \/ Set(e, Finished(Released([t EXCEPT !.input = "ended"]), "ERR_CONNECTION_ENDED"))
        \/ Set(e, Finished(Released([t EXCEPT !.input = "abort"]), AbortError(t)))
    /\ UNCHANGED <<started, handlers, store, budget>>

\* the catch of the envelope block: fall back to the legacy path
Fallback(t) == [t EXCEPT !.branch = "legacy", !.pc = LegacyEntry(t.msg)]

Logged(t, call) == [t EXCEPT !.log = @ \cup {call}]

Faulted(t) == [t EXCEPT !.faults = @ + 1]

\* a rejected peer-store call: caught inside the envelope block, thrown to the
\* caller of identify() on the legacy path
Rejected(t) ==
    IF t.branch = "envelope" THEN Fallback(Faulted(t))
    ELSE Finished(Faulted(t), "ERR_STORE")

\* the run goes on to the next await, or to the end of identify(): the envelope
\* block returns, the legacy path offers the observed address first
Advance(e, t, next) ==
    LET cleanObservedAddr == getCleanMultiaddr(t.msg.observedAddr) IN
    IF next # "return"
    THEN /\ Set(e, [t EXCEPT !.pc = next])
         /\ UNCHANGED observedAddrs
    ELSE IF t.branch = "legacy" /\ StoresObserved(cleanObservedAddr)
    THEN /\ Set(e, Finished(Logged(t, "addObservedAddr"), "ok"))
         /\ observedAddrs' = observedAddrs \cup {cleanObservedAddr}
    ELSE /\ Set(e, Finished(t, "ok"))
         /\ UNCHANGED observedAddrs

Identify_consumePeerRecord(e) ==
    /\ At(e, "identify", "consumePeerRecord")
    /\ LET t == task[e]
           envelope == t.msg.signedPeerRecord
       IN  \/ /\ consumePeerRecord(envelope)
              /\ addressBook' = [addressBook EXCEPT ![envelope.signer] = RecordAddrs(envelope.seq)]
              /\ peerRecord' = [peerRecord EXCEPT ![envelope.signer] = envelope.seq]
              /\ Set(e, [Logged(t, "consumePeerRecord") EXCEPT
                            !.pc = "protoBook.set", !.consumed = "true"])
           \/ /\ ~consumePeerRecord(envelope)
              /\ Set(e, Fallback([t EXCEPT !.consumed = "false"]))
              /\ UNCHANGED <<addressBook, peerRecord>>
           \/ /\ MayFault(e)
              /\ Set(e, Rejected(t))
              /\ UNCHANGED <<addressBook, peerRecord>>
    /\ UNCHANGED <<started, handlers, protoBook, metadataBook, observedAddrs, budget>>

Identify_addressBook_set(e) ==
    /\ At(e, "identify", "addressBook.set")
    /\ LET t == task[e] IN
        \/ /\ addressBook' = [addressBook EXCEPT ![Id(t)] = LegacyAddrs(t.msg)]
           /\ Set(e, [Logged(t, "addressBook.set") EXCEPT !.pc = "protoBook.set"])
        \/ /\ MayFault(e)
           /\ Set(e, [Faulted(t) EXCEPT !.pc = "protoBook.set"])
           /\ UNCHANGED addressBook
    /\ UNCHANGED <<started, handlers, peerRecord, protoBook, metadataBook, observedAddrs, budget>>

Identify_protoBook_set(e) ==
    /\ At(e, "identify", "protoBook.set")
    /\ LET t == task[e] IN
        \/ /\ protoBook' = [protoBook EXCEPT ![Id(t)] = t.msg.protocols]
           /\ Advance(e, Logged(t, "protoBook.set"), AfterProtocols(t.msg))
        \/ /\ MayFault(e)
           /\ Set(e, Rejected(t))
           /\ UNCHANGED <<protoBook, observedAddrs>>
    /\ UNCHANGED <<started, handlers, addressBook, peerRecord, metadataBook, budget>>

Identify_setAgentVersion(e) ==
    /\ At(e, "identify", "AgentVersion")
    /\ LET t == task[e] IN
        \/ /\ metadataBook' = [metadataBook EXCEPT
                  ![Id(t)].AgentVersion = uint8ArrayFromString(t.msg.agentVersion)]
           /\ Advance(e, Logged(t, "AgentVersion"), AfterAgent(t.msg))
        \/ /\ MayFault(e)
           /\ Set(e, Rejected(t))
           /\ UNCHANGED <<metadataBook, observedAddrs>>
    /\ UNCHANGED <<started, handlers, addressBook, peerRecord, protoBook, budget>>

Identify_setProtocolVersion(e) ==
    /\ At(e, "identify", "ProtocolVersion")
    /\ LET t == task[e] IN
        \/ /\ metadataBook' = [metadataBook EXCEPT
                  ![Id(t)].ProtocolVersion = uint8ArrayFromString(t.msg.protocolVersion)]
           /\ Advance(e, Logged(t, "ProtocolVersion"), "return")
        \/ /\ MayFault(e)
           /\ Set(e, Rejected(t))
           /\ UNCHANGED <<metadataBook, observedAddrs>>
    /\ UNCHANGED <<started, handlers, addressBook, peerRecord, protoBook, budget>>

----------------------------------------------------------------------------
(* start() and stop() *)

hostAgentVersion == "js-libp2p/0.43.2"
hostProtocolVersion == "ipfs/0.1.0"

StartCall(e) ==
    /\ BeginLifecycle(e)
    /\ IF started
       THEN Set(e, Finished([IdleTask EXCEPT !.kind = "start"], "ok"))
       ELSE Set(e, [IdleTask EXCEPT !.kind = "start", !.pc = "AgentVersion"])
    /\ UNCHANGED <<started, handlers, store>>

Start_setAgentVersion(e) ==
    /\ At(e, "start", "AgentVersion")
    /\ LET t == task[e] IN
        \/ /\ metadataBook' = [metadataBook EXCEPT
                  ![LocalPeer].AgentVersion = uint8ArrayFromString(hostAgentVersion)]
           /\ Set(e, [t EXCEPT !.pc = "ProtocolVersion"])
        \/ /\ MayFault(e)
           /\ Set(e, Finished(Faulted(t), "ERR_STORE"))
           /\ UNCHANGED metadataBook
    /\ UNCHANGED <<started, handlers, addressBook, peerRecord, protoBook, observedAddrs, budget>>

Start_setProtocolVersion(e) ==
    /\ At(e, "start", "ProtocolVersion")
    /\ LET t == task[e] IN
        \/ /\ metadataBook' = [metadataBook EXCEPT
                  ![LocalPeer].ProtocolVersion = uint8ArrayFromString(hostProtocolVersion)]
           /\ Set(e, [t EXCEPT !.pc = "handle:identify"])
        \/ /\ MayFault(e)
           /\ Set(e, Finished(Faulted(t), "ERR_STORE"))
           /\ UNCHANGED metadataBook
    /\ UNCHANGED <<started, handlers, addressBook, peerRecord, protoBook, observedAddrs, budget>>

\* registrar.handle: registers the protocol, or throws when it has a handler
Start_handleIdentify(e) ==
    /\ At(e, "start", "handle:identify")
    /\ LET t == task[e] IN
        IF identifyProtocolStr \in handlers
        THEN /\ Set(e, Finished(t, "ERR_PROTOCOL_HANDLER_ALREADY_REGISTERED"))
             /\ UNCHANGED handlers
        ELSE /\ handlers' = handlers \cup {identifyProtocolStr}
             /\ Set(e, [t EXCEPT !.pc = "handle:push"])
    /\ UNCHANGED <<started, store, budget>>

Start_handlePush(e) ==
    /\ At(e, "start", "handle:push")
    /\ LET t == task[e] IN
        IF identifyPushProtocolStr \in handlers
        THEN /\ Set(e, Finished(t, "ERR_PROTOCOL_HANDLER_ALREADY_REGISTERED"))
             /\ UNCHANGED <<handlers, started>>
        ELSE /\ handlers' = handlers \cup {identifyPushProtocolStr}
             /\ started' = TRUE
             /\ Set(e, Finished(t, "ok"))
    /\ UNCHANGED <<store, budget>>

StopCall(e) ==
    /\ BeginLifecycle(e)
    /\ Set(e, [IdleTask EXCEPT !.kind = "stop", !.pc = "unhandle:identify"])
    /\ UNCHANGED <<started, handlers, store>>

Stop_unhandleIdentify(e) ==
    /\ At(e, "stop", "unhandle:identify")
    /\ handlers' = handlers \ {identifyProtocolStr}
    /\ Set(e, [task[e] EXCEPT !.pc = "unhandle:push"])
    /\ UNCHANGED <<started, store, budget>>

\* a slip: stop() leaves the push handler registered
Stop_unhandlePush_Skipped(e) ==
    /\ At(e, "stop", "unhandle:push")
    /\ started' = FALSE
    /\ Set(e, Finished(task[e], "ok"))
    /\ UNCHANGED <<handlers, store, budget>>

Stop_unhandlePush(e) ==
    /\ At(e, "stop", "unhandle:push")
    /\ handlers' = handlers \ {identifyPushProtocolStr}
    /\ started' = FALSE
    /\ Set(e, Finished(task[e], "ok"))
    /\ UNCHANGED <<store, budget>>

----------------------------------------------------------------------------
(* _handleIdentify(data): the identify responder *)

\* addressManager.getAddresses(), without the /p2p component
LocalListenChoices == {<<>>, <<"b1">>}

\* connection.remoteAddr.bytes
remoteAddr(connection) == IF connection = "B" THEN "b2" ELSE "b1"

\* a slip: the responder mints an envelope even over an empty address list
Mints_Always(multiaddrs, signedPeerRecord) == ~signedPeerRecord.present

\* multiaddrs.length > 0 && signedPeerRecord == null
Mints(multiaddrs, signedPeerRecord) ==
    Len(multiaddrs) > 0 /\ ~signedPeerRecord.present

\* the registrar hands an inbound identify stream to the handler
HandleIdentifyCall(e, connection) ==
    /\ BeginExchange(e)
    /\ identifyProtocolStr \in handlers
    /\ Set(e, [IdleTask EXCEPT !.kind = "handleIdentify", !.pc = "peerStore.get",
                               !.conn = connection, !.timer = TRUE, !.stream = TRUE])
    /\ UNCHANGED <<started, handlers, store>>

\* peerStore.get(peerId) resolved: the response is built up to the envelope
HandleIdentify_get(e) ==
    /\ At(e, "handleIdentify", "peerStore.get")
    /\ LET t == task[e]
           stored == peerRecord[LocalPeer]
           signedPeerRecord == IF stored > 0 THEN Envelope(LocalPeer, TRUE, stored)
                               ELSE NoEnvelope
       IN  \/ \E multiaddrs \in LocalListenChoices :
                LET message == [publicKey |-> KeyOf(LocalPeer),
                                listenAddrs |-> multiaddrs,
                                protocols |-> protoBook[LocalPeer],
                                observedAddr |-> remoteAddr(t.conn),
                                signedPeerRecord |-> signedPeerRecord,
                                agentVersion |-> hostAgentVersion,
                                protocolVersion |-> hostProtocolVersion]
                IN  Set(e, [t EXCEPT !.msg = message,
                                     !.branch = IF signedPeerRecord.present
                                                THEN "stored" ELSE "none",
                                     !.pc = IF Mints(multiaddrs, signedPeerRecord)
                                            THEN "consumePeerRecord" ELSE "sink"])
           \/ /\ MayFault(e)
              /\ Set(e, Caught(Released(Faulted(t)), "ERR_STORE"))
    /\ UNCHANGED <<started, handlers, store, budget>>

\* the fresh envelope is sealed and handed to the address book
HandleIdentify_consumePeerRecord(e) ==
    /\ At(e, "handleIdentify", "consumePeerRecord")
    /\ LET t == task[e]
           envelope == Envelope(LocalPeer, TRUE, 1)
       IN  \/ /\ IF consumePeerRecord(envelope)
                 THEN /\ addressBook' = [addressBook EXCEPT ![LocalPeer] = LegacyAddrs(t.msg)]
                      /\ peerRecord' = [peerRecord EXCEPT ![LocalPeer] = envelope.seq]
                 ELSE UNCHANGED <<addressBook, peerRecord>>
              /\ Set(e, [t EXCEPT !.msg.signedPeerRecord = envelope, !.pc = "sink",
                                   !.log = @ \cup {"consumePeerRecord"}])
           \/ /\ MayFault(e)
              /\ Set(e, Caught(Released(Faulted(t)), "ERR_STORE"))
              /\ UNCHANGED <<addressBook, peerRecord>>
    /\ UNCHANGED <<started, handlers, protoBook, metadataBook, observedAddrs, budget>>

\* the frame is written, or the write fails or times out
HandleIdentify_sink(e) ==
    /\ At(e, "handleIdentify", "sink")
    /\ LET t == task[e] IN
        \/ Set(e, Finished(Released(t), "ok"))
        \/ Set(e, Caught(Released(t), "ERR_STREAM"))
        \/ Set(e, Caught(Released(t), "ERR_TIMEOUT"))
    /\ UNCHANGED <<started, handlers, store, budget>>

----------------------------------------------------------------------------
(* push(connections): the push initiator *)

PushCall(e, connections) ==
    /\ BeginExchange(e)
    /\ Set(e, [IdleTask EXCEPT !.kind = "push", !.pc = "getRawEnvelope",
                  !.pushes = [c \in connections |->
                                [pc |-> "pending", timer |-> FALSE, stream |-> FALSE]]])
    /\ UNCHANGED <<started, handlers, store>>

Push_getRawEnvelope(e) ==
    /\ At(e, "push", "getRawEnvelope")
    /\ LET t == task[e]
           stored == peerRecord[LocalPeer]
       IN  \/ \E multiaddrs \in LocalListenChoices :
                Set(e, [t EXCEPT !.pc = "protoBook.get",
                                 !.msg.listenAddrs = multiaddrs,
                                 !.msg.signedPeerRecord =
                                     IF stored > 0 THEN Envelope(LocalPeer, TRUE, stored)
                                     ELSE NoEnvelope])
           \/ /\ MayFault(e)
              /\ Set(e, Finished(Faulted(t), "ERR_STORE"))
    /\ UNCHANGED <<started, handlers, store, budget>>

\* Promise.all(pushes) resolves once every push has run its finally block
PushSettled(t) ==
    IF \A c \in DOMAIN t.pushes : t.pushes[c].pc = "done"
    THEN Finished(t, "ok")
    ELSE t

\* protoBook.get resolved: every push creates its timeout controller and calls
\* connection.newStream
Push_protoBook_get(e) ==
    /\ At(e, "push", "protoBook.get")
    /\ LET t == task[e] IN
        \/ Set(e, PushSettled([t EXCEPT !.pc = "pushing",
                                         !.msg.protocols = protoBook[LocalPeer],
                                         !.pushes = [c \in DOMAIN t.pushes |->
                                             [pc |-> "newStream", timer |-> TRUE, stream |-> FALSE]]]))
        \/ /\ MayFault(e)
           /\ Set(e, Finished(Faulted(t), "ERR_STORE"))
    /\ UNCHANGED <<started, handlers, store, budget>>

\* the finally block of one push
PushReleased(t, c, err) ==
    [t EXCEPT !.pushes[c] = [pc |-> "done", timer |-> FALSE, stream |-> FALSE],
              !.logged = IF err = Nil THEN @ ELSE err]

Push_newStream(e, c) ==
    /\ At(e, "push", "pushing")
    /\ c \in DOMAIN task[e].pushes
    /\ task[e].pushes[c].pc = "newStream"
    /\ LET t == task[e] IN
        \/ Set(e, [t EXCEPT !.pushes[c].pc = "sink", !.pushes[c].stream = TRUE])
        \/ Set(e, PushSettled(PushReleased(t, c, "ERR_STREAM")))
        \/ Set(e, PushSettled(PushReleased(t, c, "ERR_TIMEOUT")))
    /\ UNCHANGED <<started, handlers, store, budget>>

Push_sink(e, c) ==
    /\ At(e, "push", "pushing")
    /\ c \in DOMAIN task[e].pushes
    /\ task[e].pushes[c].pc = "sink"
    /\ LET t == task[e] IN
        \/ Set(e, PushSettled(PushReleased(t, c, Nil)))
        \/ Set(e, PushSettled(PushReleased(t, c, "ERR_STREAM")))
        \/ Set(e, PushSettled(PushReleased(t, c, "ERR_TIMEOUT")))
    /\ UNCHANGED <<started, handlers, store, budget>>

----------------------------------------------------------------------------
(* pushToPeerStore() and the change:multiaddrs / change:protocols listeners *)

\* a slip: pushToPeerStore() does not look at this.started
isStarted_Always == TRUE

isStarted == started

\* a slip: every connection is taken for push-capable
Advertises_Any(protocols) == TRUE

\* peer.protocols.includes(this.identifyPushProtocolStr)
Advertises(protocols) == identifyPushProtocolStr \in protocols

\* pushToPeerStore() calls push(connections) with the connections it kept
CallsPush(t) ==
    [t EXCEPT !.kind = "push", !.pc = "getRawEnvelope", !.filtered = TRUE,
              !.pushes = [c \in DOMAIN t.pushes |->
                            [pc |-> "pending", timer |-> FALSE, stream |-> FALSE]]]

\* pushToPeerStore() up to its first await: it returns if the service is not
\* started, else it takes getConnections() and awaits peerStore.get for the
\* first connection; with no connection it calls push([]) at once
BeginPushToPeerStore(t, connections) ==
    IF ~isStarted THEN Finished([t EXCEPT !.kind = "pushToPeerStore"], "ok")
    ELSE IF connections = {}
         THEN CallsPush([t EXCEPT !.conns = connections])
         ELSE [t EXCEPT !.kind = "pushToPeerStore", !.pc = "peerStore.get",
                        !.conns = connections]

PushToPeerStoreCall(e, connections) ==
    /\ BeginExchange(e)
    /\ Set(e, BeginPushToPeerStore(IdleTask, connections))
    /\ UNCHANGED <<started, handlers, store>>

\* the listener of a change event: an event about another peer is dropped, an
\* event about the local peer calls pushToPeerStore()
Changed(e, peerId, connections) ==
    /\ BeginExchange(e)
    /\ Set(e, IF peerId = LocalPeer
              THEN BeginPushToPeerStore([IdleTask EXCEPT !.change = peerId], connections)
              ELSE Finished([IdleTask EXCEPT !.kind = "change", !.change = peerId], "ok"))
    /\ UNCHANGED <<started, handlers, store>>

ChangeMultiaddrs(e, peerId, connections) == Changed(e, peerId, connections)

ChangeProtocols(e, peerId, connections) == Changed(e, peerId, connections)

\* peerStore.get(conn.remotePeer) settled for the next connection of the loop:
\* the connection is kept if the peer advertises the push protocol; after the
\* last connection push() is called. A rejection rejects pushToPeerStore(); the
\* listener logs it.
PushToPeerStore_get(e) ==
    /\ At(e, "pushToPeerStore", "peerStore.get")
    /\ LET t == task[e] IN
        \/ \E conn \in t.conns \ t.seen :
             LET kept == IF Advertises(protoBook[conn])
                         THEN DOMAIN t.pushes \cup {conn}
                         ELSE DOMAIN t.pushes
                 u == [t EXCEPT !.seen = @ \cup {conn},
                                !.pushes = [c \in kept |->
                                    [pc |-> "pending", timer |-> FALSE, stream |-> FALSE]]]
             IN  Set(e, IF u.seen = u.conns THEN CallsPush(u) ELSE u)
        \/ /\ MayFault(e)
           /\ Set(e, Finished(Faulted(t), "ERR_STORE"))
    /\ UNCHANGED <<started, handlers, store, budget>>

----------------------------------------------------------------------------
(* _handlePush(data): the push responder *)

HandlePushCall(e, connection) ==
    /\ BeginExchange(e)
    /\ identifyPushProtocolStr \in handlers
    /\ Set(e, [IdleTask EXCEPT !.kind = "handlePush", !.pc = "read",
                               !.conn = connection, !.timer = TRUE, !.stream = TRUE])
    /\ UNCHANGED <<started, handlers, store>>

\* _handlePush after the frame was decoded, up to the first peer-store call
HandlePushResume(t, message) ==
    IF LocalPeer = t.conn THEN Finished([t EXCEPT !.msg = Thrown(message)], "ok")
    ELSE IF message.signedPeerRecord.present /\ openAndCertify(message.signedPeerRecord)
    THEN [t EXCEPT !.msg = message, !.pc = "consumePeerRecord", !.branch = "envelope"]
    ELSE [t EXCEPT !.msg = message, !.pc = LegacyEntry(message), !.branch = "legacy"]

HandlePush_read(e) ==
    /\ At(e, "handlePush", "read")
    /\ LET t == task[e] IN
        \/ \E n \in FrameLengths, m \in Answers(t.conn) :
              LET r == Released([t EXCEPT !.input = "message", !.frame = n]) IN
              IF LpDecodeAccepts(n, MaxDataLength)
              THEN Set(e, HandlePushResume([r EXCEPT !.buffered = TRUE], m))
              ELSE Set(e, Caught(r, "ERR_MESSAGE_TOO_LARGE"))
        \/ \E n \in FrameLengths :
              /\ LpDecodeAccepts(n, MaxDataLength)
              /\ Set(e, Caught(Released([t EXCEPT !.input = "garbage", !.frame = n,
                                                  !.buffered = TRUE]),
                               "ERR_INVALID_MESSAGE"))
        \/ Set(e, Caught(Released([t EXCEPT !.input = "ended"]), "ERR_INVALID_MESSAGE"))
        \/ Set(e, Caught(Released([t EXCEPT !.input = "abort"]), "ERR_TIMEOUT"))
    /\ UNCHANGED <<started, handlers, store, budget>>

HandlePush_consumePeerRecord(e) ==
    /\ At(e, "handlePush", "consumePeerRecord")
    /\ LET t == task[e]
           envelope == t.msg.signedPeerRecord
       IN  \/ /\ consumePeerRecord(envelope)
              /\ addressBook' = [addressBook EXCEPT ![envelope.signer] = RecordAddrs(envelope.seq)]
              /\ peerRecord' = [peerRecord EXCEPT ![envelope.signer] = envelope.seq]
              /\ Set(e, [Logged(t, "consumePeerRecord") EXCEPT
                            !.pc = "protoBook.set", !.consumed = "true"])
           \/ /\ ~consumePeerRecord(envelope)
              /\ Set(e, Fallback([t EXCEPT !.consumed = "false"]))
              /\ UNCHANGED <<addressBook, peerRecord>>
           \/ /\ MayFault(e)
              /\ Set(e, Fallback(Faulted(t)))
              /\ UNCHANGED <<addressBook, peerRecord>>
    /\ UNCHANGED <<started, handlers, protoBook, metadataBook, observedAddrs, budget>>

HandlePush_addressBook_set(e) ==
    /\ At(e, "handlePush", "addressBook.set")
    /\ LET t == task[e] IN
        \/ /\ addressBook' = [addressBook EXCEPT ![t.conn] = LegacyAddrs(t.msg)]
           /\ Set(e, [Logged(t, "addressBook.set") EXCEPT !.pc = "protoBook.set"])
        \/ /\ MayFault(e)
           /\ Set(e, [Faulted(t) EXCEPT !.pc = "protoBook.set", !.logged = "ERR_STORE"])
           /\ UNCHANGED addressBook
    /\ UNCHANGED <<started, handlers, peerRecord, protoBook, metadataBook, observedAddrs, budget>>

HandlePush_protoBook_set(e) ==
    /\ At(e, "handlePush", "protoBook.set")
    /\ LET t == task[e] IN
        \/ /\ protoBook' = [protoBook EXCEPT ![t.conn] = t.msg.protocols]
           /\ Set(e, Finished(Logged(t, "protoBook.set"), "ok"))
        \/ /\ MayFault(e)
           /\ Set(e, IF t.branch = "envelope" THEN Fallback(Faulted(t))
                     ELSE Caught(Faulted(t), "ERR_STORE"))
           /\ UNCHANGED protoBook
    /\ UNCHANGED <<started, handlers, addressBook, peerRecord, metadataBook, observedAddrs, budget>>

----------------------------------------------------------------------------
\* the caller has the outcome; the slot is free again
Reap(e) ==
    /\ Done(e)
    /\ Set(e, IdleTask)
    /\ UNCHANGED <<started, handlers, store, budget>>

----------------------------------------------------------------------------
(* The specifications *)

\* the service is constructed, the peer store is empty
Init ==
    /\ started = FALSE
    /\ handlers = {}
    /\ addressBook = [p \in Peers |-> {}]
    /\ peerRecord = [p \in Peers |-> 0]
    /\ protoBook = [p \in Peers |-> {}]
    /\ metadataBook = [p \in Peers |-> [AgentVersion |-> NoBytes, ProtocolVersion |-> NoBytes]]
    /\ observedAddrs = {}
    /\ task = [e \in Slots |-> IdleTask]
    /\ budget = [exchanges |-> MaxExchanges, lifecycle |-> MaxLifecycle, answers |-> "light"]

\* the peer store outlives the service and is shared with the rest of the node:
\* at construction it may already know peer A from an earlier identify, by the
\* record numbered n
KnownPeer == "A"
OldProtocols == {"/old/1"}
OldAgent == uint8ArrayFromString("old-agent/0.0")
OldProtocolVersion == uint8ArrayFromString("old/0.0.0")

InitKnown ==
    /\ started = FALSE
    /\ handlers = {}
    /\ \E n \in 0 .. MaxSeq :
          /\ peerRecord = [p \in Peers |-> IF p = KnownPeer THEN n ELSE 0]
          /\ addressBook = [p \in Peers |-> IF p = KnownPeer /\ n > 0 THEN RecordAddrs(n) ELSE {}]
          /\ protoBook = [p \in Peers |-> IF p = KnownPeer /\ n > 0 THEN OldProtocols ELSE {}]
          /\ metadataBook = [p \in Peers |->
                IF p = KnownPeer /\ n > 0
                THEN [AgentVersion |-> OldAgent, ProtocolVersion |-> OldProtocolVersion]
                ELSE [AgentVersion |-> NoBytes, ProtocolVersion |-> NoBytes]]
    /\ observedAddrs = {}
    /\ task = [e \in Slots |-> IdleTask]
    /\ budget = [exchanges |-> MaxSerialExchanges, lifecycle |-> MaxSerialLifecycle,
                 answers |-> "all"]

Step(e) ==
    \/ \E c \in Connections : PeerConnect(e, c)
    \/ \E c \in Connections : IdentifyCall(e, c)
    \/ Identify_newStream(e)
    \/ Identify_read(e)
    \/ Identify_consumePeerRecord(e)
    \/ Identify_addressBook_set(e)
    \/ Identify_protoBook_set(e)
    \/ Identify_setAgentVersion(e)
    \/ Identify_setProtocolVersion(e)
    \/ StartCall(e)
    \/ Start_setAgentVersion(e)
    \/ Start_setProtocolVersion(e)
    \/ Start_handleIdentify(e)
    \/ Start_handlePush(e)
    \/ StopCall(e)
    \/ Stop_unhandleIdentify(e)
    \/ Stop_unhandlePush(e)
    \/ \E c \in Connections : HandleIdentifyCall(e, c)
    \/ HandleIdentify_get(e)
    \/ HandleIdentify_consumePeerRecord(e)
    \/ HandleIdentify_sink(e)
    \/ \E cs \in SUBSET RemotePeers : PushCall(e, cs)
    \/ Push_getRawEnvelope(e)
    \/ Push_protoBook_get(e)
    \/ \E c \in RemotePeers : Push_newStream(e, c)
    \/ \E c \in RemotePeers : Push_sink(e, c)
    \/ \E cs \in SUBSET RemotePeers : PushToPeerStoreCall(e, cs)
    \/ \E p \in Peers, cs \in SUBSET RemotePeers : ChangeMultiaddrs(e, p, cs)
    \/ \E p \in Peers, cs \in SUBSET RemotePeers : ChangeProtocols(e, p, cs)
    \/ PushToPeerStore_get(e)
    \/ \E c \in Connections : HandlePushCall(e, c)
    \/ HandlePush_read(e)
    \/ HandlePush_consumePeerRecord(e)
    \/ HandlePush_addressBook_set(e)
    \/ HandlePush_protoBook_set(e)
    \/ Reap(e)

\* one call at a time: every call runs in the first slot
NextSerial == Step(1)

Next == \E e \in Slots : Step(e)

SpecSerial == InitKnown /\ [][NextSerial]_vars

\* the service as constructed over a peer store that knows every remote peer,
\* some of them advertising the push protocol
InitPush ==
    /\ started = FALSE
    /\ handlers = {}
    /\ addressBook = [p \in Peers |-> {}]
    /\ peerRecord = [p \in Peers |-> 0]
    /\ \E capable \in SUBSET RemotePeers :
          protoBook = [p \in Peers |->
                IF p \in capable THEN OldProtocols \cup {identifyPushProtocolStr}
                ELSE IF p \in RemotePeers THEN OldProtocols
                ELSE {}]
    /\ metadataBook = [p \in Peers |-> [AgentVersion |-> NoBytes, ProtocolVersion |-> NoBytes]]
    /\ observedAddrs = {}
    /\ task = [e \in Slots |-> IdleTask]
    /\ budget = [exchanges |-> MaxPushExchanges, lifecycle |-> MaxPushLifecycle,
                 answers |-> "light"]

SpecPush == InitPush /\ [][NextSerial]_vars

Spec == Init /\ [][Next]_vars

\* what a call in flight does next: the awaited promise settles.  Every stream
\* operation is bound to a signal (the timeout controller's, or the caller's)
\* whose abort rejects it, and the peer-store promises settle
Resume(e) ==
    \/ Identify_newStream(e)
    \/ Identify_read(e)
    \/ Identify_consumePeerRecord(e)
    \/ Identify_addressBook_set(e)
    \/ Identify_protoBook_set(e)
    \/ Identify_setAgentVersion(e)
    \/ Identify_setProtocolVersion(e)
    \/ Start_setAgentVersion(e)
    \/ Start_setProtocolVersion(e)
    \/ Start_handleIdentify(e)
    \/ Start_handlePush(e)
    \/ Stop_unhandleIdentify(e)
    \/ Stop_unhandlePush(e)
    \/ HandleIdentify_get(e)
    \/ HandleIdentify_consumePeerRecord(e)
    \/ HandleIdentify_sink(e)
    \/ Push_getRawEnvelope(e)
    \/ Push_protoBook_get(e)
    \/ \E c \in RemotePeers : Push_newStream(e, c)
    \/ \E c \in RemotePeers : Push_sink(e, c)
    \/ PushToPeerStore_get(e)
    \/ HandlePush_read(e)
    \/ HandlePush_consumePeerRecord(e)
    \/ HandlePush_addressBook_set(e)
    \/ HandlePush_protoBook_set(e)

\* the service as constructed, with the calls the fair specification makes: one
\* exchange, and a start() and a stop() that may overlap it
InitFair ==
    /\ started = FALSE
    /\ handlers = {}
    /\ addressBook = [p \in Peers |-> {}]
    /\ peerRecord = [p \in Peers |-> 0]
    /\ protoBook = [p \in Peers |-> {}]
    /\ metadataBook = [p \in Peers |-> [AgentVersion |-> NoBytes, ProtocolVersion |-> NoBytes]]
    /\ observedAddrs = {}
    /\ task = [e \in Slots |-> IdleTask]
    /\ budget = [exchanges |-> MaxFairExchanges, lifecycle |-> MaxFairLifecycle,
                 answers |-> "light"]

FairSpec == InitFair /\ [][Next]_vars /\ \A e \in Slots : WF_vars(Resume(e))

----------------------------------------------------------------------------
(* Properties *)

\* identify() of slot e has returned or thrown
IdentifyDone(e) == Done(e) /\ task[e].kind = "identify"

\* the frame was read whole and decoded into task[e].msg
Decoded(e) == task[e].input = "message" /\ task[e].buffered

\* C1: whenever identify() has decoded a message whose public key derives a
\* peer id other than connection.remotePeer, it has failed with
\* ERR_INVALID_PEER and has made no write to the address book, the protocol
\* book, the metadata book or the address manager.
C1_KeyMismatchRejected ==
    \A e \in Slots :
        (/\ IdentifyDone(e)
         /\ Decoded(e)
         /\ task[e].msg.publicKey # Nil
         /\ peerIdFromKeys(task[e].msg.publicKey) # task[e].conn)
        => (task[e].result = "ERR_INVALID_PEER" /\ task[e].log = {})

\* C1 happens: a peer already in the peer store answers with another peer's key
C1_Witness ==
    \E e \in Slots :
        /\ IdentifyDone(e)
        /\ Decoded(e)
        /\ task[e].conn = KnownPeer
        /\ peerRecord[KnownPeer] > 0
        /\ task[e].msg.publicKey = KeyOf("B")
        /\ task[e].result = "ERR_INVALID_PEER"

\* C2: whenever identify() runs on a connection whose remote peer is the local
\* peer and the message carries the local peer's own key, it has failed with
\* ERR_INVALID_PEER and has written nothing.
C2_SelfIdentifyRejected ==
    \A e \in Slots :
        (/\ IdentifyDone(e)
         /\ Decoded(e)
         /\ task[e].conn = LocalPeer
         /\ task[e].msg.publicKey = KeyOf(LocalPeer))
        => (task[e].result = "ERR_INVALID_PEER" /\ task[e].log = {})

\* C2 happens: the node dialled itself and got its own key back
C2_Witness ==
    \E e \in Slots :
        /\ IdentifyDone(e)
        /\ Decoded(e)
        /\ task[e].conn = LocalPeer
        /\ task[e].msg.publicKey = KeyOf(LocalPeer)
        /\ task[e].frame = MAX_IDENTIFY_MESSAGE_SIZE
        /\ task[e].result = "ERR_INVALID_PEER"

\* the message passed the checks of identify()
WellFormed(e) == Decoded(e) /\ CheckMessage(task[e].conn, task[e].msg) = "ok"

\* the protocol book and the metadata book hold what the message of e said
ProtocolsStored(e) ==
    LET t == task[e] IN
    /\ protoBook[t.conn] = t.msg.protocols
    /\ t.msg.agentVersion # Nil =>
          metadataBook[t.conn].AgentVersion = uint8ArrayFromString(t.msg.agentVersion)
    /\ t.msg.protocolVersion # Nil =>
          metadataBook[t.conn].ProtocolVersion = uint8ArrayFromString(t.msg.protocolVersion)

\* C3: for every message that passed the checks, on each path (envelope
\* accepted, envelope refused by the address book, envelope invalid, no
\* envelope), identify() has completed without error unless a peer-store call
\* of the exchange failed, and when it has completed the protocol book holds
\* the message's protocols and the metadata book its agent version and
\* protocol version, when present.
C3_ProtocolsAlwaysStored ==
    \A e \in Slots :
        (IdentifyDone(e) /\ WellFormed(e))
        => /\ task[e].faults = 0 => task[e].result = "ok"
           /\ task[e].result \in {"ok", "ERR_STORE"}
           /\ task[e].result = "ok" => ProtocolsStored(e)

\* C3 happens: the address book refused the envelope of a peer it knew, and
\* the protocols and both versions of the message replaced the old ones
C3_Witness ==
    \E e \in Slots :
        /\ IdentifyDone(e)
        /\ WellFormed(e)
        /\ task[e].faults = 0
        /\ task[e].conn = KnownPeer
        /\ task[e].consumed = "false"
        /\ task[e].msg.agentVersion # Nil
        /\ task[e].msg.protocolVersion # Nil
        /\ protoBook[KnownPeer] # OldProtocols
        /\ task[e].result = "ok"

\* C4: after an identify exchange, if the signed peer record verified and
\* consumePeerRecord returned true, the address book of the peer holds the
\* envelope's addresses; if the verification failed, it holds the decoded
\* listen_addrs of the message.
C4_AddressesAfterIdentify ==
    \A e \in Slots :
        (IdentifyDone(e) /\ WellFormed(e) /\ task[e].result = "ok")
        => LET t == task[e]
               envelope == t.msg.signedPeerRecord
           IN  /\ t.consumed = "true" =>
                     addressBook[t.conn] = RecordAddrs(envelope.seq)
               /\ (envelope.present /\ ~openAndCertify(envelope)) =>
                     addressBook[t.conn] =
                         {multiaddr(t.msg.listenAddrs[i]) :
                             i \in {j \in 1 .. Len(t.msg.listenAddrs) :
                                       CanParse(t.msg.listenAddrs[j])}}

\* C5: in every reachable state, however the identify exchanges interleave,
\* the address manager holds at most maxObservedAddresses observed addresses.
C5_ObservedAddrsCapped == Cardinality(observedAddrs) <= MaxObservedAddresses

\* C5 happens: an identify completed on the legacy path with an observed
\* address that the full address manager did not take
C5_Witness ==
    \E e \in Slots :
        /\ IdentifyDone(e)
        /\ task[e].result = "ok"
        /\ task[e].branch = "legacy"
        /\ getCleanMultiaddr(task[e].msg.observedAddr) # Nil
        /\ getCleanMultiaddr(task[e].msg.observedAddr) \notin observedAddrs
        /\ Cardinality(observedAddrs) = MaxObservedAddresses

\* C6: when stop() has returned, neither protocol string is registered and
\* isStarted() is false; when start() has returned, both are registered and
\* isStarted() is true.
C6_LifecycleRegisters ==
    \A e \in Slots :
        (Done(e) /\ task[e].result = "ok")
        => /\ task[e].kind = "start" =>
                 (started /\ {identifyProtocolStr, identifyPushProtocolStr} \subseteq handlers)
           /\ task[e].kind = "stop" =>
                 (~started /\ handlers \cap {identifyProtocolStr, identifyPushProtocolStr} = {})

\* C6 happens: stop() has returned after a start() that had registered both
C6_Witness ==
    \E e \in Slots :
        /\ Done(e)
        /\ task[e].kind = "stop"
        /\ metadataBook[LocalPeer].ProtocolVersion = uint8ArrayFromString(hostProtocolVersion)
        /\ budget.lifecycle = 0
        /\ handlers = {}
        /\ ~started

\* C7: a peer:connect event starts an identify exchange only while the service
\* is started, never before start() or after stop().
C7_ConnectOnlyWhileStarted ==
    [][\A e \in Slots :
          (Idle(e) /\ task'[e].kind = "identify" /\ task'[e].event) => started]_vars

\* C8: on the identify initiator and on the push responder, a frame that
\* declares more than max_identify_message_size bytes is refused with
\* ERR_MESSAGE_TOO_LARGE: its payload is not read, the stream is closed and
\* nothing is written to the peer store or the address manager.
C8_OversizeFrameRefused ==
    \A e \in Slots :
        (/\ Done(e)
         /\ task[e].kind \in {"identify", "handlePush"}
         /\ task[e].input = "message"
         /\ task[e].frame > MAX_IDENTIFY_MESSAGE_SIZE)
        => /\ ~task[e].buffered
           /\ ~task[e].stream
           /\ task[e].log = {}
           /\ task[e].kind = "identify" => task[e].result = "ERR_MESSAGE_TOO_LARGE"
           /\ task[e].kind = "handlePush" => task[e].logged = "ERR_MESSAGE_TOO_LARGE"

\* C8 happens: the push handler was handed a frame one byte over the cap
C8_Witness ==
    \E e \in Slots :
        /\ Done(e)
        /\ task[e].kind = "handlePush"
        /\ task[e].input = "message"
        /\ task[e].frame = MAX_IDENTIFY_MESSAGE_SIZE + 1
        /\ task[e].logged = "ERR_MESSAGE_TOO_LARGE"

\* C9: a decoded identify response without a public key fails with
\* ERR_MISSING_PUBLIC_KEY, whatever the peer of the connection, and a stream
\* that ended before a frame arrived fails with ERR_CONNECTION_ENDED; in both
\* cases nothing has been written.
C9_MissingKeyOrEnded ==
    \A e \in Slots :
        IdentifyDone(e)
        => /\ (Decoded(e) /\ task[e].msg.publicKey = Nil) =>
                 (task[e].result = "ERR_MISSING_PUBLIC_KEY" /\ task[e].log = {})
           /\ task[e].input = "ended" =>
                 (task[e].result = "ERR_CONNECTION_ENDED" /\ task[e].log = {})

\* C9 happens: a known peer answered with a message that has no public key
C9_Witness ==
    \E e \in Slots :
        /\ IdentifyDone(e)
        /\ Decoded(e)
        /\ task[e].conn = KnownPeer
        /\ task[e].msg.publicKey = Nil
        /\ task[e].result = "ERR_MISSING_PUBLIC_KEY"

\* the four roles
Roles == {"identify", "handleIdentify", "push", "handlePush"}

\* the call of slot e holds neither a stream nor a timeout controller
HoldsNothing(e) ==
    /\ ~task[e].timer
    /\ ~task[e].stream
    /\ \A c \in DOMAIN task[e].pushes :
          ~task[e].pushes[c].timer /\ ~task[e].pushes[c].stream

\* C10: every exchange of the four roles ends, and when it has ended, on
\* whichever path, every stream it obtained is closed and every timeout
\* controller it created is cleared.
C10_ExchangesClose ==
    /\ [](\A e \in Slots : Done(e) => HoldsNothing(e))
    /\ \A e \in Slots :
          (task[e].kind \in Roles /\ ~Done(e)) ~> (Done(e) /\ HoldsNothing(e))

\* C10 happens: a push to two connections has ended, one of them timed out
C10_Witness ==
    \E e \in Slots :
        /\ Done(e)
        /\ task[e].kind = "push"
        /\ DOMAIN task[e].pushes = RemotePeers
        /\ task[e].logged = "ERR_TIMEOUT"
        /\ HoldsNothing(e)

\* the entries of listen_addrs that parse, as multiaddrs
ParseableAddrs(message) ==
    {multiaddr(message.listenAddrs[i]) :
        i \in {j \in 1 .. Len(message.listenAddrs) : CanParse(message.listenAddrs[j])}}

\* C11: the identify responder, the push responder and the push initiator
\* never surface an error: whatever fails (a stream, a decode, an envelope, a
\* peer-store call), the call completes normally, and a push to several
\* connections has run every one of its pushes.
C11_NothingSurfaces ==
    \A e \in Slots :
        (Done(e) /\ task[e].kind \in {"handleIdentify", "handlePush", "push"})
        => /\ task[e].result = "ok"
           /\ \A c \in DOMAIN task[e].pushes : task[e].pushes[c].pc = "done"

\* C12: when the push responder has handled a push from a connected peer that
\* carried a verifying envelope of that peer which consumePeerRecord accepted,
\* the address book of the peer holds the envelope's addresses and the protocol
\* book the pushed protocols; when the push carried no envelope, the address
\* book of the peer holds the pushed listen_addrs.
C12_PushUpdatesAddresses ==
    \A e \in Slots :
        (Done(e) /\ task[e].kind = "handlePush" /\ Decoded(e)
           /\ task[e].conn \in RemotePeers /\ task[e].result = "ok")
        => LET t == task[e]
               envelope == t.msg.signedPeerRecord
           IN  /\ (t.consumed = "true" /\ envelope.signer = t.conn) =>
                     /\ addressBook[t.conn] = RecordAddrs(envelope.seq)
                     /\ protoBook[t.conn] = t.msg.protocols
               /\ ~envelope.present => addressBook[t.conn] = ParseableAddrs(t.msg)

\* C13: the envelope wins: an identify or push exchange in which
\* consumePeerRecord accepted the signed peer record never writes the message's
\* listen_addrs to the address book, whatever happens in its later steps.
C13_EnvelopeWins ==
    \A e \in Slots :
        (task[e].kind \in {"identify", "handlePush"} /\ task[e].consumed = "true")
        => "addressBook.set" \notin task[e].log

\* C14: when the signed peer record is present but does not verify, or encloses
\* another peer id than the derived one, identify() does not abort: with a
\* working peer store it returns without error, the address book of the peer
\* holds the message's listen_addrs, and the protocols and metadata are written.
C14_BadEnvelopeFallsBack ==
    \A e \in Slots :
        (/\ IdentifyDone(e)
         /\ WellFormed(e)
         /\ task[e].faults = 0
         /\ task[e].msg.signedPeerRecord.present
         /\ \/ ~openAndCertify(task[e].msg.signedPeerRecord)
            \/ task[e].msg.signedPeerRecord.signer # task[e].conn)
        => /\ task[e].result = "ok"
           /\ addressBook[task[e].conn] = ParseableAddrs(task[e].msg)
           /\ ProtocolsStored(e)

\* C15: every identify exchange that succeeded on a message with a parseable
\* observed_addr has offered it to the address manager if the manager held
\* fewer than maxObservedAddresses addresses, on the envelope-accepted path as
\* on the legacy path: afterwards the address is held, or the manager is full.
C15_ObservedAddrOffered ==
    \A e \in Slots :
        (/\ IdentifyDone(e)
         /\ WellFormed(e)
         /\ task[e].result = "ok"
         /\ getCleanMultiaddr(task[e].msg.observedAddr) # Nil)
        => \/ getCleanMultiaddr(task[e].msg.observedAddr) \in observedAddrs
           \/ Cardinality(observedAddrs) >= MaxObservedAddresses

\* C16: the push responder offers a signed peer record to consumePeerRecord
\* only if the envelope's peer id is connection.remotePeer: a push from one
\* peer never changes the stored record or addresses of another.
C16_PushEnvelopeBound ==
    \A e \in Slots :
        (task[e].kind = "handlePush" /\ "consumePeerRecord" \in task[e].log)
        => task[e].msg.signedPeerRecord.signer = task[e].conn

\* C19: on the legacy path of identify() and of _handlePush, when listen_addrs
\* has an unparseable entry only that entry is skipped: with a working peer
\* store, the address book of the peer holds the entries that parse and the
\* exchange has gone on to write the protocols.
C19_OnlyBadEntrySkipped ==
    \A e \in Slots :
        (/\ Done(e)
         /\ task[e].kind \in {"identify", "handlePush"}
         /\ task[e].branch = "legacy"
         /\ task[e].faults = 0
         /\ ~ListenAddrsParse(task[e].msg))
        => /\ addressBook[task[e].conn] = ParseableAddrs(task[e].msg)
           /\ "protoBook.set" \in task[e].log

\* the call of slot e came out of pushToPeerStore() into push()
PushedToAll(e) == task[e].kind = "push" /\ task[e].filtered

\* the call of slot e has asked a connection for a push stream
OpenedPushStream(e) ==
    \E c \in DOMAIN task[e].pushes : task[e].pushes[c].pc # "pending"

\* C17: pushToPeerStore() calls push() with exactly the push-capable
\* connections: a connection is pushed to if and only if it is one of the
\* connections getConnections() returned and the peer store's protocols of its
\* remote peer include the identify-push protocol string; until push() is
\* called no stream is asked for, and never one to a peer without push.
C17_PushToAllSelects ==
    \A e \in Slots :
        /\ PushedToAll(e) =>
              DOMAIN task[e].pushes =
                  {c \in task[e].conns : identifyPushProtocolStr \in protoBook[c]}
        /\ task[e].kind = "pushToPeerStore" => ~OpenedPushStream(e)

\* C17 happens: of two connections one advertises push, and the push to it,
\* and to it only, has been made
C17_Witness ==
    \E e \in Slots :
        /\ PushedToAll(e)
        /\ Done(e)
        /\ task[e].conns = RemotePeers
        /\ \E c \in RemotePeers : DOMAIN task[e].pushes = {c}
        /\ \E c \in RemotePeers : identifyPushProtocolStr \notin protoBook[c]

\* C18: a change event leads to pushToPeerStore() going past its guard, and so
\* to push streams, only if the event's peer id is the local peer and the
\* service is started: an event about a remote peer, or one delivered before
\* start() or after stop(), opens no push stream.
C18_ChangeEventGuarded ==
    \A e \in Slots :
        (task[e].change # Nil /\ (~started \/ task[e].change # LocalPeer))
        => /\ Done(e)
           /\ task[e].kind \in {"change", "pushToPeerStore"}
           /\ task[e].conns = {}
           /\ ~OpenedPushStream(e)

\* C18 happens: the service was started and stopped, then an event about the
\* local peer was delivered and nothing was pushed
C18_Witness ==
    \E e \in Slots :
        /\ task[e].change = LocalPeer
        /\ task[e].kind = "pushToPeerStore"
        /\ Done(e)
        /\ ~started
        /\ budget.lifecycle = 0
        /\ task[e].pushes = <<>>

\* the identify responder of slot e has built its response: it is about to
\* write it, or has written it
Responding(e) ==
    /\ task[e].kind = "handleIdentify"
    /\ \/ task[e].pc = "sink"
       \/ Done(e) /\ task[e].logged = Nil

\* C20: the response of the identify responder carries the envelope the peer
\* store held for the local peer when it held one, and nothing is minted; when
\* it held none and the local listen address list is not empty, the response
\* carries a fresh envelope of the local peer over those addresses that was
\* handed to consumePeerRecord and is what the store now holds; when it held
\* none and the list is empty, the response carries no signed peer record and
\* the responder has persisted nothing.
C20_ResponderEnvelope ==
    \A e \in Slots :
        Responding(e) =>
            LET t == task[e]
                envelope == t.msg.signedPeerRecord
            IN  /\ t.branch = "stored" =>
                      /\ envelope = Envelope(LocalPeer, TRUE, peerRecord[LocalPeer])
                      /\ "consumePeerRecord" \notin t.log
                /\ (t.branch = "none" /\ Len(t.msg.listenAddrs) > 0) =>
                      /\ envelope.present /\ envelope.signer = LocalPeer /\ envelope.sigOk
                      /\ "consumePeerRecord" \in t.log
                      /\ peerRecord[LocalPeer] = envelope.seq
                      /\ addressBook[LocalPeer] = LegacyAddrs(t.msg)
                /\ (t.branch = "none" /\ Len(t.msg.listenAddrs) = 0) =>
                      /\ ~envelope.present
                      /\ "consumePeerRecord" \notin t.log

\* C20 happens: one responder found no envelope, minted one over its listen
\* addresses and sent it, and a later responder answered with that envelope
C20_Witness ==
    \E e, f \in Slots :
        /\ Responding(e) /\ Done(e)
        /\ task[e].branch = "none"
        /\ "consumePeerRecord" \in task[e].log
        /\ Responding(f) /\ Done(f)
        /\ task[f].branch = "stored"
        /\ task[f].msg.signedPeerRecord = task[e].msg.signedPeerRecord

\* C22: once the address book holds an accepted signed peer record of a peer,
\* an identify or push exchange whose record consumePeerRecord rejected as not
\* newer does not replace the peer's certified addresses by the message's
\* listen_addrs: the addresses of the peer stay those of the newest accepted
\* record.
C22_StaleRecordKeepsCertified ==
    \A e \in Slots :
        (/\ Done(e)
         /\ task[e].kind \in {"identify", "handlePush"}
         /\ task[e].consumed = "false"
         /\ task[e].msg.signedPeerRecord.signer = task[e].conn
         /\ peerRecord[task[e].conn] > 0)
        => addressBook[task[e].conn] = RecordAddrs(peerRecord[task[e].conn])

\* no start() or stop() call is in flight
LifecycleQuiet ==
    \A e \in Slots : task[e].kind \in {"start", "stop"} => Done(e)

\* C23: start() is idempotent under overlapping calls: in every interleaving
\* of start() and stop() calls no start() asks the registrar for a protocol
\* that is registered already, and when no call is in flight isStarted() is
\* true exactly when both handlers are registered.
C23_OverlappingLifecycle ==
    /\ \A e \in Slots :
          task[e].kind = "start" =>
              task[e].result # "ERR_PROTOCOL_HANDLER_ALREADY_REGISTERED"
    /\ LifecycleQuiet =>
          (started <=> {identifyProtocolStr, identifyPushProtocolStr} \subseteq handlers)

\* what the peer store holds about peer p
PeerBook(p) ==
    [addrs |-> addressBook[p], record |-> peerRecord[p], protocols |-> protoBook[p],
     metadata |-> metadataBook[p]]

\* what the peer store holds about a peer it has never heard of
UnknownPeerBook ==
    [addrs |-> {}, record |-> 0, protocols |-> {},
     metadata |-> [AgentVersion |-> NoBytes, ProtocolVersion |-> NoBytes]]

\* what identify() makes of a peer's entry when it runs alone, with no failing
\* call, on a message that passed its checks: the envelope path if the record
\* is offered and newer, else the legacy path
IdentifyAlone(book, id, message) ==
    LET envelope == message.signedPeerRecord
        accepted == EnvelopeOffered(message, id) /\ envelope.seq > book.record
    IN  [addrs |-> IF accepted THEN RecordAddrs(envelope.seq)
                   ELSE IF ListenAddrsParse(message) THEN LegacyAddrs(message)
                   ELSE book.addrs,
         record |-> IF accepted THEN envelope.seq ELSE book.record,
         protocols |-> message.protocols,
         metadata |->
             [AgentVersion |-> IF message.agentVersion # Nil
                               THEN uint8ArrayFromString(message.agentVersion)
                               ELSE book.metadata.AgentVersion,
              ProtocolVersion |-> IF message.protocolVersion # Nil
                                  THEN uint8ArrayFromString(message.protocolVersion)
                                  ELSE book.metadata.ProtocolVersion]]

\* C21: two identify exchanges against the same remote peer, begun over a
\* peer store that does not know the peer, end in the same peer-store entry for
\* that peer in every interleaving of their steps: the entry that the
\* interleaving in which the first exchange runs to its end before the second
\* goes on leaves behind.
C21_InterleavingsAgree ==
    (/\ \A e \in Slots : IdentifyDone(e) /\ WellFormed(e)
                           /\ task[e].result = "ok" /\ task[e].faults = 0
     /\ \A e, f \in Slots : task[e].conn = task[f].conn)
    => LET p == task[1].conn
       IN  PeerBook(p) =
               IdentifyAlone(IdentifyAlone(UnknownPeerBook, p, task[1].msg), p, task[2].msg)

====
